---- MODULE Spec2Model ----
(***************************************************************************)
(* The two telematics dashboards of the repository as state machines:      *)
(*   src/New.py            engine-idle / work efficiency (time-log report) *)
(*   src/streamlit_app.py  mileage, fuel cost and maintenance bands        *)
(*                                                                         *)
(* Number representation (TLC has integers only):                          *)
(*   hours           hundredths of an hour      (2.5 h   = 250)            *)
(*   fractional days hundredths of a day        (0.5 day = 50)             *)
(*   End_Km          hundredths of a kilometre  (50000 km = 5000000)       *)
(*   Total_Km        tenths of a kilometre      (200 km  = 2000)           *)
(*   Utilization, CPK  exact fractions [num, den], den > 0, in lowest terms*)
(* Text is a sequence of atoms (a word or a single character); the atom    *)
(* " " is one whitespace character.                                        *)
(***************************************************************************)
EXTENDS Integers, Sequences, FiniteSets, TLC

\* ------------------------------------------------------------- bounds
\* Most data rows in one uploaded report.
MaxRows == 2
\* Largest hour field of an "H:M:S" text handed to time_to_hours alone.
MaxHour == 3
\* Largest fractional-day number, in quarters of a day, handed to
\* time_to_hours alone.
MaxDay == 4
\* Longest plate text handed to the plate extraction alone.
MaxPlateLen == 4

VARIABLES
    app,            \* the dashboard script of the session
    pc,             \* position of the running dashboard script
    uploaded_file,  \* the report held by st.file_uploader
    df_full,        \* New.py: the table load_and_clean_data returned
    df_base,        \* streamlit_app.py: the table load_data returned
    df,             \* the working copy: streamlit_app.py adds Est_Fuel_Cost_AED
                    \* to it, New.py keeps the rows of the selected dates in it
    petrol_price,   \* number_input 'petrol_input', in steps of AED 0.05
    diesel_price,   \* number_input 'diesel_input', in steps of AED 0.05
    global_eff,     \* slider 'global_eff_input', in tenths
    errors,         \* messages shown with st.error, oldest first
    fn_arg,         \* argument of a function applied on its own
    fn_ret,         \* its result
    selected_dates_raw,  \* New.py: what the multiselect 'Filter Dates:' returned
    sel_locs,            \* streamlit_app.py: the four cascading selections
    sel_makes,
    sel_maint,
    sel_vehicles,
    selection_filtered,  \* the rows of df the four selections keep, then with CPK
    threshold,           \* slider 'thresh_slider', in km
    ghost_assets_data,   \* the rows of selection_filtered with Total_Km == 0
    filtered             \* the rows of selection_filtered with Total_Km > threshold

\* What the scripts compute after the load and the costing.
dashboard == <<selected_dates_raw, sel_locs, sel_makes, sel_maint, sel_vehicles,
               selection_filtered, threshold, ghost_assets_data, filtered>>

vars == <<app, pc, uploaded_file, df_full, df_base, df, petrol_price,
          diesel_price, global_eff, errors, fn_arg, fn_ret, dashboard>>

\* ------------------------------------------------------- arithmetic
Abs(x) == IF x < 0 THEN -x ELSE x

RECURSIVE GCD(_, _)
GCD(a, b) == IF b = 0 THEN a ELSE GCD(b, a % b)

\* The fraction n/d (d > 0) in lowest terms.
Frac(n, d) ==
    LET g == GCD(Abs(n), d)
    IN  [num |-> n \div g, den |-> d \div g]

ZeroFrac == [num |-> 0, den |-> 1]

\* floor(n/d) for d > 0
Floor(n, d) == n \div d

\* The sequences over S of length 0..n.
SeqUpTo(S, n) == UNION {[1..k -> S] : k \in 0..n}

\* ---------------------------------------------------------------- text
IsSpace(a) == a \in {" ", "\n"}

RECURSIVE LStrip(_)
LStrip(s) == IF s # <<>> /\ IsSpace(Head(s)) THEN LStrip(Tail(s)) ELSE s

RECURSIVE RStrip(_)
RStrip(s) ==
    IF s # <<>> /\ IsSpace(s[Len(s)]) THEN RStrip(SubSeq(s, 1, Len(s) - 1)) ELSE s

\* str.strip()
Strip(s) == RStrip(LStrip(s))

\* --------------------------------------------------- cells of a report
\* A duration cell as pandas hands it to time_to_hours: a missing value, a
\* number (int or float: a spreadsheet fraction of a day) or text.  Text is
\* held as the list str(x).split(':') produces; a part is ok when int()
\* accepts it, and val is then its value.
NaNDuration == [kind |-> "nan", num |-> 0, parts |-> <<>>]
NumDuration(n) == [kind |-> "num", num |-> n, parts |-> <<>>]
TextDuration(ps) == [kind |-> "text", num |-> 0, parts |-> ps]
IntPart(v) == [ok |-> TRUE, val |-> v]
JunkPart == [ok |-> FALSE, val |-> 0]
HMS(h, m, s) == TextDuration(<<IntPart(h), IntPart(m), IntPart(s)>>)

\* A date cell: missing, text pandas cannot read as a date, or a date
\* (day = its day number).
NaNDate == [kind |-> "nan", day |-> 0]
TextDate == [kind |-> "text", day |-> 0]
DateCell(d) == [kind |-> "date", day |-> d]

\* pd.NaT, the date pd.to_datetime(errors='coerce') gives unreadable input
NaT == -1

\* --------------------------------------------------------- New.py
\* The exact decimal ties x.xx5 of parts[0] + parts[1]/60 + parts[2]/3600
\* whose binary float lies above the tie, so that round(x, 2) goes up; every
\* other tie among the modelled inputs lies below and goes down.  (A tie has
\* parts[2] + 60*parts[1] = 18 mod 36.)
BinaryTieUp ==
    {<<-1, 0, 18>>, <<-1, 18, 18>>, <<-1, 30, 18>>, <<0, 0, 18>>, <<0, 30, 18>>}

\* round(x, 2) cut short: the hundredths truncated, not rounded.
RoundHMS_truncated(h, m, s) == Floor(360000 * h + 6000 * m + 100 * s, 3600)

\* round(parts[0] + parts[1]/60 + parts[2]/3600, 2), in hundredths of an hour
RoundHMS(h, m, s) ==
    LET n == 360000 * h + 6000 * m + 100 * s
        q == Floor(n, 3600)
        r == n - q * 3600
    IN  IF 2 * r < 3600 THEN q
        ELSE IF 2 * r > 3600 THEN q + 1
        ELSE IF <<h, m, s>> \in BinaryTieUp THEN q + 1 ELSE q

\* time_to_hours(time_str): every exception inside is caught and gives 0.0.
time_to_hours(c) ==
    IF c.kind = "nan" THEN 0                            \* pd.isna
    ELSE IF c.kind = "num" THEN c.num * 24              \* float(x) * 24
    ELSE IF \E i \in 1..Len(c.parts) : ~c.parts[i].ok THEN 0  \* ValueError
    ELSE IF Len(c.parts) < 3 THEN 0                     \* IndexError
    ELSE RoundHMS(c.parts[1].val, c.parts[2].val, c.parts[3].val)

\* A header name padded with one blank on each side.
Padded(name) == <<" ">> \o name \o <<" ">>

Grouping == <<"Grouping">>
EngineHours == <<"Engine hours">>
BoomOperationTime == <<"Boom Operation time">>

\* required_columns
required_columns == <<Grouping, EngineHours, BoomOperationTime>>

\* df.columns.str.strip() left out: the names as uploaded.
StripColumns_skipped(columns) == columns

\* df.columns = df.columns.str.strip()
StripColumns(columns) == [i \in 1..Len(columns) |-> Strip(columns[i])]

\* all(col in df.columns for col in required_columns)
HasRequiredColumns(columns) ==
    \A k \in 1..Len(required_columns) :
        \E i \in 1..Len(columns) : columns[i] = required_columns[k]

\* The position of the column called name (the modelled headers hold no
\* name twice).
ColumnOf(columns, name) == CHOOSE i \in 1..Len(columns) : columns[i] = name

\* pd.isna of a raw cell
isna(c) == c.kind = "nan"

\* pd.to_datetime(x, errors='coerce')
to_datetime(c) == IF c.kind = "date" THEN c.day ELSE NaT

\* Series.clip(lower=0) dropped.
clip_lower_skipped(x, lower) == x

\* Series.clip(lower=...)
clip_lower(x, lower) == IF x < lower THEN lower ELSE x

\* The guard written "!= 0" instead of "> 0".
Utilization_nonzero(work, engine) ==
    IF engine > 0 THEN Frac(work * 100, engine)
    ELSE IF engine < 0 THEN Frac((-work) * 100, -engine)
    ELSE ZeroFrac

\* (Work_Hours / Engine_Hours * 100) if Engine_Hours > 0 else 0
Utilization(work, engine) ==
    IF engine > 0 THEN Frac(work * 100, engine) ELSE ZeroFrac

\* The derived columns of one row (lines 95-106).
DeriveRow(r) ==
    LET eng  == time_to_hours(r.Engine_Raw)
        work == time_to_hours(r.Work_Raw)
    IN  [idx |-> r.idx, Date |-> r.Date,
         Engine_Raw |-> r.Engine_Raw, Work_Raw |-> r.Work_Raw,
         Engine_Hours |-> eng, Work_Hours |-> work,
         Idle_Hours |-> clip_lower(eng - work, 0),
         Utilization |-> Utilization(work, eng)]

\* r put into the date-sorted rows after every row whose date is not later.
RECURSIVE InsertByDate(_, _)
InsertByDate(rows, r) ==
    IF rows = <<>> THEN <<r>>
    ELSE IF rows[Len(rows)].Date <= r.Date THEN Append(rows, r)
    ELSE Append(InsertByDate(SubSeq(rows, 1, Len(rows) - 1), r), rows[Len(rows)])

sort_values_skipped(rows) == rows

\* df.sort_values('Date'): numpy sorts fewer than 17 rows by insertion, which
\* keeps rows of one date in their order.
RECURSIVE sort_values(_)
sort_values(rows) ==
    IF rows = <<>> THEN <<>>
    ELSE InsertByDate(sort_values(SubSeq(rows, 1, Len(rows) - 1)), rows[Len(rows)])

NoTable == <<>>

\* load_and_clean_data(file): ok with the table returned, or the message
\* given to st.error before st.stop().
load_and_clean_data(file) ==
    LET columns == StripColumns(file.columns)
    IN  IF ~HasRequiredColumns(columns)
        THEN [ok |-> FALSE, error |-> "Column Error", df |-> NoTable]
        ELSE
          LET iDate == ColumnOf(columns, Grouping)
              iEng  == ColumnOf(columns, EngineHours)
              iWork == ColumnOf(columns, BoomOperationTime)
              raw   == [i \in 1..Len(file.rows) |->
                          [idx |-> i - 1, Date |-> file.rows[i][iDate],
                           Engine_Raw |-> file.rows[i][iEng],
                           Work_Raw |-> file.rows[i][iWork]]]
              present == SelectSeq(raw, LAMBDA r : ~isna(r.Date))
              dated == [i \in 1..Len(present) |->
                          [present[i] EXCEPT !.Date = to_datetime(present[i].Date)]]
              valid == SelectSeq(dated, LAMBDA r : r.Date # NaT)
              derived == [i \in 1..Len(valid) |-> DeriveRow(valid[i])]
          IN  [ok |-> TRUE, error |-> "", df |-> sort_values(derived)]

\* str(d) of a date, the ISO text of the day, and pd.to_datetime(text).date()
\* reading it back.
date_str(d) == [iso |-> d]
to_date(t) == t.iso

\* sorted([str(d) for d in df_temp['Date'].dt.date.unique()]), the options
\* offered after 'Select All'
date_options(rows) == {date_str(rows[i].Date) : i \in 1..Len(rows)}

\* What st.multiselect can return over the options: all says whether
\* 'Select All' is among the chosen, picked is the rest of the chosen.
Selections(options) ==
    {[all |-> a, picked |-> p] : a \in BOOLEAN, p \in SUBSET options}

filter_dates_select_all_only(rows, selected) ==
    IF selected.all THEN rows
    ELSE SelectSeq(rows, LAMBDA r : r.Date \in {to_date(t) : t \in selected.picked})

\* Lines 149-156: the rows of df_full shown under the date selection.
filter_dates(rows, selected) ==
    IF (~selected.all /\ selected.picked = {}) \/ selected.all THEN rows
    ELSE SelectSeq(rows, LAMBDA r : r.Date \in {to_date(t) : t \in selected.picked})

\* ------------------------------------------------- streamlit_app.py
\* A text cell (Plate, Make, Location): missing, or its characters.
NaNText == [kind |-> "nan", s |-> <<>>]
Text(s) == [kind |-> "str", s |-> s]

\* A numeric cell (Sr, Start_Km, End_Km, Total_Km): missing, a number, text
\* that reads as the number num, or text that reads as no number.
NaNNumber == [kind |-> "nan", num |-> 0]
Number(n) == [kind |-> "num", num |-> n]
NumberText(n) == [kind |-> "numtext", num |-> n]
JunkNumber == [kind |-> "text", num |-> 0]

\* Series.astype(str): a missing value becomes the text nan.
astype_str(c) == IF c.kind = "nan" THEN <<"n", "a", "n">> ELSE c.s

\* str.upper() of one atom: the lower- and mixed-case atoms of the modelled
\* reports; every other atom is upper case already, or has no case.
upper_atom(a) ==
    CASE a = "n" -> "N"
      [] a = "a" -> "A"
      [] a = "x" -> "X"
      [] a \in {"mazda", "Mazda"} -> "MAZDA"
      [] a \in {"nissan", "Nissan"} -> "NISSAN"
      [] a \in {"sunny", "Sunny"} -> "SUNNY"
      [] a \in {"cwl-dubai", "Cwl-Dubai"} -> "CWL-DUBAI"
      [] a \in {"cwl", "Cwl"} -> "CWL"
      [] a \in {"dubai", "Dubai"} -> "DUBAI"
      [] a \in {"auh", "Auh"} -> "AUH"
      [] a \in {"Sharjah"} -> "SHARJAH"
      [] a \in {"Musaffah"} -> "MUSAFFAH"
      [] OTHER -> a

\* str.upper()
upper(s) == [i \in 1..Len(s) |-> upper_atom(s[i])]

\* pd.to_numeric(x, errors='coerce').fillna(0)
to_numeric_fillna0(c) == IF c.kind \in {"num", "numtext"} THEN c.num ELSE 0

\* [A-Z0-9-]
IsTokenChar(a) ==
    a \in {"A", "N", "R", "T", "X", "0", "1", "2", "5", "8", "9", "-"}

\* The characters s[from..] can be what (.*)$ matches: "." takes no line
\* break, and "$" stands at the end or before one last line break.
TailMatches(s, from) ==
    \A k \in from..Len(s) : s[k] = "\n" => k = Len(s)

\* ^([A-Z0-9-]+)\s*(.*)$ matches s with group 1 = s[1..i] and \s* = the
\* next j characters.
PlateMatch(s, i, j) ==
    /\ i >= 1 /\ j >= 0 /\ i + j <= Len(s)
    /\ \A k \in 1..i : IsTokenChar(s[k])
    /\ \A k \in (i + 1)..(i + j) : IsSpace(s[k])
    /\ TailMatches(s, i + j + 1)

\* str.extract(r'^([A-Z0-9-]+)\s*(.*)$'): both groups missing when nothing
\* matches; otherwise the match the greedy search finds first (the longest
\* group 1, then the longest \s*).
extract_plate(s) ==
    LET I == {i \in 1..Len(s) : \E j \in 0..Len(s) : PlateMatch(s, i, j)}
    IN  IF I = {} THEN [matched |-> FALSE, g1 |-> <<>>, g2 |-> <<>>]
        ELSE
          LET i == CHOOSE x \in I : \A y \in I : y <= x
              J == {j \in 0..Len(s) : PlateMatch(s, i, j)}
              j == CHOOSE x \in J : \A y \in J : y <= x
              rest == SubSeq(s, i + j + 1, Len(s))
          IN  [matched |-> TRUE, g1 |-> SubSeq(s, 1, i),
               g2 |-> IF rest # <<>> /\ rest[Len(rest)] = "\n"
                      THEN SubSeq(rest, 1, Len(rest) - 1) ELSE rest]

GeneralPool == <<"General Pool">>

\* The '' -> 'General Pool' replacement left out.
role_notes_unreplaced(m) == IF ~m.matched THEN GeneralPool ELSE Strip(m.g2)

\* .fillna('General Pool').replace('', 'General Pool').str.strip()
role_notes(m) ==
    IF ~m.matched THEN GeneralPool
    ELSE IF m.g2 = <<>> THEN GeneralPool
    ELSE Strip(m.g2)

\* df['Vehicle_ID'].fillna(df['Plate'].astype(str))
vehicle_id(m, plate) == IF m.matched THEN m.g1 ELSE plate

\* Series.replace(dict): a value equal to a key becomes that key's value.
replace(s, dict) ==
    IF \E p \in dict : p[1] = s THEN (CHOOSE p \in dict : p[1] = s)[2] ELSE s

SiteAliases ==
    {<<(<<"CWL-DUBAI">>), (<<"DUBAI">>)>>,
     <<(<<"CWL", " ", "DUBAI">>), (<<"DUBAI">>)>>,
     <<(<<"SHJ-THAMEEM">>), (<<"SHARJAH">>)>>,
     <<(<<"AUH">>), (<<"ABU", " ", "DHABI">>)>>}

CityNames ==
    {<<(<<"DUBAI">>), (<<"Dubai">>)>>,
     <<(<<"ABU", " ", "DHABI">>), (<<"Abu Dhabi">>)>>,
     <<(<<"SHARJAH">>), (<<"Sharjah">>)>>,
     <<(<<"AL", " ", "AIN">>), (<<"Al Ain">>)>>,
     <<(<<"AJMAN">>), (<<"Ajman">>)>>,
     <<(<<"FUJAIRAH">>), (<<"Fujairah">>)>>,
     <<(<<"RAS", " ", "AL", " ", "KHAIMAH">>), (<<"Ras Al Khaimah">>)>>}

Other == <<"Other">>

\* Lines 91-95.  The cell is text after astype(str), so the closing
\* fillna('Other') finds nothing missing.
normalize_location(c) == replace(replace(upper(astype_str(c)), SiteAliases), CityNames)

\* coords, in hundredths of a degree
coords ==
    {<<(<<"Dubai">>), <<2520, 5527>>>>, <<(<<"Abu Dhabi">>), <<2445, 5437>>>>,
     <<(<<"Sharjah">>), <<2534, 5542>>>>, <<(<<"Al Ain">>), <<2413, 5574>>>>,
     <<(<<"Ajman">>), <<2540, 5551>>>>, <<(<<"Fujairah">>), <<2512, 5632>>>>,
     <<(<<"Ras Al Khaimah">>), <<2580, 5597>>>>, <<Other, <<2500, 5500>>>>}

\* coords.get(x, coords['Other'])
coords_get(x) ==
    IF \E p \in coords : p[1] = x THEN (CHOOSE p \in coords : p[1] = x)[2]
    ELSE <<2500, 5500>>

\* The bin edges 50000 and 100000 km, in hundredths of a kilometre.
MidLifeEdge == 5000000
EndOfLifeEdge == 10000000

Fresh == "Fresh (<50k km)"
MidLife == "Mid-Life (50-100k km)"
EndOfLife == "End-of-Life (>100k km)"

\* pd.cut(End_Km, bins=[0, 50000, 100000, inf], labels=[...],
\* include_lowest=True).astype(str): the bins are closed on the right
\* (right=True is pd.cut's default), the first also on the left; a value in
\* no bin is missing, and astype(str) makes that the text nan.
maintenance_band(end_km) ==
    IF end_km < 0 THEN "nan"
    ELSE IF end_km <= MidLifeEdge THEN Fresh
    ELSE IF end_km <= EndOfLifeEdge THEN MidLife
    ELSE EndOfLife

MileageColumns == 7

\* The cleaned row of one uploaded row (lines 79-109).
CleanMileageRow(idx, cells) ==
    LET plate == astype_str(cells[2])
        m == extract_plate(plate)
        location == normalize_location(cells[4])
        end_km == to_numeric_fillna0(cells[6])
    IN  [idx |-> idx, Sr |-> cells[1], Plate |-> cells[2],
         Make |-> Strip(upper(astype_str(cells[3]))),
         Location |-> location, Start_Km |-> cells[5],
         End_Km |-> end_km, Total_Km |-> to_numeric_fillna0(cells[7]),
         Vehicle_ID |-> vehicle_id(m, plate), Role_Notes |-> role_notes(m),
         Lat |-> coords_get(location)[1], Lon |-> coords_get(location)[2],
         Maintenance_Band |-> maintenance_band(end_km)]

\* load_data(file): ok with the table returned, or the message given to
\* st.error before st.stop().
load_data(file) ==
    IF Len(file.columns) = 0
    THEN [ok |-> FALSE, error |-> "Data Error: IndexError", df |-> NoTable]
    ELSE
      LET idxs == SelectSeq([i \in 1..Len(file.rows) |-> i],
                            LAMBDA i : ~isna(file.rows[i][1]))
      IN  IF Len(file.columns) # MileageColumns
          THEN [ok |-> FALSE, error |-> "Data Error: Length mismatch", df |-> NoTable]
          ELSE [ok |-> TRUE, error |-> "",
                df |-> [k \in 1..Len(idxs) |->
                          CleanMileageRow(idxs[k] - 1, file.rows[idxs[k]])]]

\* fuel_rates, in halves of a litre per 100 km
fuel_rates ==
    {<<(<<"NISSAN", " ", "SUNNY">>), 16>>, <<(<<"NISSAN", " ", "ALTIMA">>), 17>>,
     <<(<<"MAZDA">>), 18>>, <<(<<"ASHOK", " ", "LEYLAND">>), 32>>,
     <<(<<"MITSUBISHI", " ", "CANTER">>), 30>>}

\* 12.0 L/100km, in halves of a litre
DefaultRate == 24

\* The fallback rate mistyped as 10.0.
fuel_rates_get_default10(make) ==
    IF \E p \in fuel_rates : p[1] = make
    THEN (CHOOSE p \in fuel_rates : p[1] = make)[2] ELSE 20

\* fuel_rates.get(row['Make'], 12.0)
fuel_rates_get(make) ==
    IF \E p \in fuel_rates : p[1] = make
    THEN (CHOOSE p \in fuel_rates : p[1] = make)[2] ELSE DefaultRate

\* health_factor, in twentieths: 1.0, 1.05 when 'Mid-Life' is in the band's
\* text, 1.15 when 'End-of-Life' is.
health_factor(band) ==
    IF band = MidLife THEN 21 ELSE IF band = EndOfLife THEN 23 ELSE 20

\* ['NISSAN SUNNY', 'NISSAN ALTIMA', 'MAZDA']
PetrolMakes ==
    {<<"NISSAN", " ", "SUNNY">>, <<"NISSAN", " ", "ALTIMA">>, <<"MAZDA">>}

\* round(x) of the built-in: to the nearest integer, a tie to the even one.
\* n/d is x, d > 0.
RoundHalfEven(n, d) ==
    LET q == Floor(n, d)
        r == n - q * d
    IN  IF 2 * r < d THEN q
        ELSE IF 2 * r > d THEN q + 1
        ELSE IF q % 2 = 0 THEN q ELSE q + 1

\* Total_Km is in tenths, rate in halves, health_factor and price in
\* twentieths, global_eff in tenths: (Total_Km / 100) * rate * price is
\* their product over 10 * 100 * 2 * 20 * 10 * 20.
CostScale == 8000000

\* calculate_smart_cost(row) under the widget values
calculate_smart_cost(row, petrol, diesel, eff) ==
    LET rate  == fuel_rates_get(row.Make) * health_factor(row.Maintenance_Band) * eff
        price == IF row.Make \in PetrolMakes THEN petrol ELSE diesel
    IN  RoundHalfEven(row.Total_Km * rate * price, CostScale)

\* The row with the column Est_Fuel_Cost_AED added.
WithCost(r, cost) ==
    [idx |-> r.idx, Sr |-> r.Sr, Plate |-> r.Plate, Make |-> r.Make,
     Location |-> r.Location, Start_Km |-> r.Start_Km, End_Km |-> r.End_Km,
     Total_Km |-> r.Total_Km, Vehicle_ID |-> r.Vehicle_ID,
     Role_Notes |-> r.Role_Notes, Lat |-> r.Lat, Lon |-> r.Lon,
     Maintenance_Band |-> r.Maintenance_Band, Est_Fuel_Cost_AED |-> cost]

\* multiselect_with_all(label, options, key), given what the widget returned
multiselect_with_all(options, selected) ==
    IF selected.all THEN options ELSE selected.picked

\* Every list multiselect_with_all can return over the options, one for each
\* thing the user can have chosen in the widget.
Returned_by(options) ==
    {multiselect_with_all(options, s) : s \in Selections(options)}

\* int(x) for x = n/d, d > 0: the fraction is cut off
int(n, d) == IF n >= 0 THEN n \div d ELSE -((-n) \div d)

\* max_km_found, in km, of a table that has rows
max_km_found(rows) ==
    LET kms == {rows[i].Total_Km : i \in 1..Len(rows)}
    IN  int(CHOOSE m \in kms : \A k \in kms : k <= m, 10)

\* The largest value of the slider 'thresh_slider': max(max_km_found + 50, 100)
slider_max(rows) ==
    IF max_km_found(rows) + 50 > 100 THEN max_km_found(rows) + 50 ELSE 100

CPK_nonzero(cost, total_km) ==
    IF total_km > 0 THEN Frac(cost * 10, total_km)
    ELSE IF total_km < 0 THEN Frac((-cost) * 10, -total_km)
    ELSE ZeroFrac

\* x['Est_Fuel_Cost_AED'] / x['Total_Km'] if x['Total_Km'] > 0 else 0, with
\* Total_Km in tenths of a km
CPK(cost, total_km) ==
    IF total_km > 0 THEN Frac(cost * 10, total_km) ELSE ZeroFrac

\* The row with the column CPK added.
WithCPK(r) ==
    [idx |-> r.idx, Sr |-> r.Sr, Plate |-> r.Plate, Make |-> r.Make,
     Location |-> r.Location, Start_Km |-> r.Start_Km, End_Km |-> r.End_Km,
     Total_Km |-> r.Total_Km, Vehicle_ID |-> r.Vehicle_ID,
     Role_Notes |-> r.Role_Notes, Lat |-> r.Lat, Lon |-> r.Lon,
     Maintenance_Band |-> r.Maintenance_Band,
     Est_Fuel_Cost_AED |-> r.Est_Fuel_Cost_AED,
     CPK |-> CPK(r.Est_Fuel_Cost_AED, r.Total_Km)]

\* ------------------------------------------------ uploaded reports
\* Time-log reports: every table of at most MaxRows rows over these cells.
DateCells == {NaNDate, TextDate, DateCell(1), DateCell(2)}
EngineCells == {NaNDuration, NumDuration(-50), HMS(2, 30, 0)}
WorkCells == {TextDuration(<<JunkPart>>), NumDuration(50), HMS(1, 0, 0)}

TimeLogRows == DateCells \X EngineCells \X WorkCells

\* Headers holding every required column, as named or padded with blanks.
TimeLogHeaders ==
    {<<Grouping, EngineHours, BoomOperationTime>>,
     <<Padded(Grouping), Padded(EngineHours), Padded(BoomOperationTime)>>}

\* The rows tried under the headers other than the plain one.
FewTimeLogRows ==
    {<<DateCell(1), HMS(2, 30, 0), HMS(1, 0, 0)>>,
     <<DateCell(2), NaNDuration, NumDuration(50)>>}

\* Reports lacking a required column: one named otherwise, one absent.
TimeLogFilesLacking ==
    {[columns |-> <<Grouping, EngineHours, <<"Work time">>>>, rows |-> rs] :
        rs \in SeqUpTo(FewTimeLogRows, MaxRows)}
    \cup
    {[columns |-> <<Padded(EngineHours), BoomOperationTime>>, rows |-> rs] :
        rs \in SeqUpTo({<<HMS(2, 30, 0), HMS(1, 0, 0)>>}, MaxRows)}

TimeLogFiles ==
    {[columns |-> <<Grouping, EngineHours, BoomOperationTime>>, rows |-> rs] :
        rs \in SeqUpTo(TimeLogRows, MaxRows)}
    \cup
    {[columns |-> <<Padded(Grouping), Padded(EngineHours),
                    Padded(BoomOperationTime)>>, rows |-> rs] :
        rs \in SeqUpTo(FewTimeLogRows, MaxRows)}
    \cup TimeLogFilesLacking

\* Mileage reports: every table of at most MaxRows rows, each row the usual
\* row with one cell replaced.
PlateExample ==
    <<"1", "-", "9", "8", "0", "2", "5", " ", "R", "T", "-", "1", "9", "8">>
PlateBare == <<"1", "-", "9", "8", "0", "2", "5">>

UsualRow ==
    <<Number(1), Text(PlateExample), Text(<<"MAZDA">>), Text(<<"Dubai">>),
      Number(0), Number(1000000), Number(2000)>>

SrCells == {NaNNumber}
PlateCells ==
    {NaNText, Text(PlateBare), Text(PlateBare \o <<" ", " ">>),
     Text(<<"x", "1", " ", "R">>)}
MakeCells ==
    {NaNText, Text(<<" ", "mazda", " ">>), Text(<<"Nissan", " ", "Sunny">>),
     Text(<<"ASHOK", " ", "LEYLAND">>), Text(<<"TOYOTA">>)}
LocationCells ==
    {NaNText, Text(<<"CWL-DUBAI">>), Text(<<"CWL", " ", "DUBAI">>),
     Text(<<"cwl", " ", "dubai">>), Text(<<"Cwl-Dubai">>), Text(<<"AUH">>),
     Text(<<"Sharjah">>), Text(<<"Musaffah">>), Text(<<" ", "Dubai">>)}
EndKmCells ==
    {NaNNumber, JunkNumber, Number(-100), Number(0), Number(4999999),
     Number(MidLifeEdge), NumberText(MidLifeEdge + 1), Number(EndOfLifeEdge),
     Number(EndOfLifeEdge + 1)}
TotalKmCells == {NaNNumber, JunkNumber, Number(0), Number(-10), NumberText(1250)}
StartKmCells == {NaNNumber, JunkNumber}

MileageRows ==
    {UsualRow}
    \cup {[UsualRow EXCEPT ![1] = c] : c \in SrCells}
    \cup {[UsualRow EXCEPT ![2] = c] : c \in PlateCells}
    \cup {[UsualRow EXCEPT ![3] = c] : c \in MakeCells}
    \cup {[UsualRow EXCEPT ![4] = c] : c \in LocationCells}
    \cup {[UsualRow EXCEPT ![6] = c] : c \in EndKmCells}
    \cup {[UsualRow EXCEPT ![7] = c] : c \in TotalKmCells}
    \cup {[UsualRow EXCEPT ![5] = c] : c \in StartKmCells}

MileageHeader ==
    <<(<<"Sr">>), (<<"Plate">>), (<<"Make">>), (<<"Location">>),
      (<<"Start">>), (<<"End">>), (<<"Total">>)>>

MileageFiles ==
    {[columns |-> MileageHeader, rows |-> rs] : rs \in SeqUpTo(MileageRows, MaxRows)}
    \cup
    {[columns |-> SubSeq(MileageHeader, 1, 6),
      rows |-> [i \in 1..n |-> SubSeq(UsualRow, 1, 6)]] : n \in 0..MaxRows}
    \cup
    {[columns |-> Append(MileageHeader, <<"Remarks">>),
      rows |-> [i \in 1..n |-> Append(UsualRow, NaNText)]] : n \in 0..MaxRows}
    \cup
    {[columns |-> <<>>, rows |-> <<>>]}

\* Widget values: prices in twentieths of a dirham, the slider in tenths.
PetrolPrices == {52, 53}
DieselPrices == {57, 60}
GlobalEffs == {9, 10, 11, 12}

\* The widget settings tried on whole reports.
ReportSettings == {<<52, 57, 10>>, <<53, 60, 11>>}

NoFile == [columns |-> <<>>, rows |-> <<>>]

\* ------------------------------------------------------ the sessions
\* selected_dates_raw = [] (New.py line 121); the other names are unbound
\* until their lines run, and the slider's default is 10.
NothingSelected ==
    /\ selected_dates_raw = [all |-> FALSE, picked |-> {}]
    /\ sel_locs = {} /\ sel_makes = {} /\ sel_maint = {} /\ sel_vehicles = {}
    /\ selection_filtered = NoTable
    /\ threshold = 10
    /\ ghost_assets_data = NoTable
    /\ filtered = NoTable

Init ==
    /\ app = "none"
    /\ pc = "start"
    /\ uploaded_file = NoFile
    /\ df_full = NoTable
    /\ df_base = NoTable
    /\ df = NoTable
    /\ petrol_price = 52
    /\ diesel_price = 57
    /\ global_eff = 10
    /\ errors = <<>>
    /\ fn_arg = <<>>
    /\ fn_ret = <<>>
    /\ NothingSelected

\* New.py: st.file_uploader("Upload Report", type=['csv', 'xlsx'])
UploadTimeLog ==
    /\ pc = "start"
    /\ \E f \in TimeLogFiles : uploaded_file' = f
    /\ app' = "New.py"
    /\ pc' = "uploaded"
    /\ UNCHANGED <<df_full, df_base, df, petrol_price, diesel_price,
                   global_eff, errors, fn_arg, fn_ret, dashboard>>

\* New.py: df_full = load_and_clean_data(uploaded_file); st.stop() ends the run.
LoadTimeLog ==
    /\ app = "New.py" /\ pc = "uploaded"
    /\ LET res == load_and_clean_data(uploaded_file)
       IN  IF res.ok
           THEN df_full' = res.df /\ pc' = "loaded" /\ errors' = errors
           ELSE df_full' = df_full /\ pc' = "stopped"
                /\ errors' = Append(errors, res.error)
    /\ UNCHANGED <<app, uploaded_file, df_base, df, petrol_price, diesel_price,
                   global_eff, fn_arg, fn_ret, dashboard>>

\* streamlit_app.py: st.file_uploader("Upload Report", type=["xlsx"])
UploadMileage ==
    /\ pc = "start"
    /\ \E f \in MileageFiles : uploaded_file' = f
    /\ app' = "streamlit_app.py"
    /\ pc' = "uploaded"
    /\ UNCHANGED <<df_full, df_base, df, petrol_price, diesel_price,
                   global_eff, errors, fn_arg, fn_ret, dashboard>>

\* streamlit_app.py: df_base = load_data(uploaded_file)
LoadMileage ==
    /\ app = "streamlit_app.py" /\ pc = "uploaded"
    /\ LET res == load_data(uploaded_file)
       IN  IF res.ok
           THEN df_base' = res.df /\ pc' = "loaded" /\ errors' = errors
           ELSE df_base' = df_base /\ pc' = "stopped"
                /\ errors' = Append(errors, res.error)
    /\ UNCHANGED <<app, uploaded_file, df_full, df, petrol_price, diesel_price,
                   global_eff, fn_arg, fn_ret, dashboard>>

ComputeCost_inplace ==
    /\ app = "streamlit_app.py" /\ pc = "loaded"
    /\ \E w \in ReportSettings :
          /\ petrol_price' = w[1] /\ diesel_price' = w[2] /\ global_eff' = w[3]
          /\ df' = [i \in 1..Len(df_base) |->
                      WithCost(df_base[i],
                               calculate_smart_cost(df_base[i], w[1], w[2], w[3]))]
    /\ df_base' = df'
    /\ pc' = "costed"
    /\ UNCHANGED <<app, uploaded_file, df_full, errors, fn_arg, fn_ret, dashboard>>

\* streamlit_app.py lines 139-165: the three widgets are read, then
\* df = df_base.copy(); df['Est_Fuel_Cost_AED'] = df.apply(calculate_smart_cost)
ComputeCost ==
    /\ app = "streamlit_app.py" /\ pc = "loaded"
    /\ \E w \in ReportSettings :
          /\ petrol_price' = w[1] /\ diesel_price' = w[2] /\ global_eff' = w[3]
          /\ df' = [i \in 1..Len(df_base) |->
                      WithCost(df_base[i],
                               calculate_smart_cost(df_base[i], w[1], w[2], w[3]))]
    /\ pc' = "costed"
    /\ UNCHANGED <<app, uploaded_file, df_full, df_base, errors, fn_arg, fn_ret,
                   dashboard>>

Next == UploadTimeLog \/ LoadTimeLog \/ UploadMileage \/ LoadMileage \/ ComputeCost

Spec == Init /\ [][Next]_vars

\* --------------------------------- the dashboards after the load
\* Three vehicles that differ in site, make, band, id and usage.
SampleMileageRows ==
    {UsualRow,
     <<Number(2), Text(<<"x", "1", " ", "R">>), Text(<<"TOYOTA">>), Text(<<"AUH">>),
       Number(0), Number(6000000), Number(0)>>,
     <<Number(3), Text(<<"A", "-", "7">>), Text(<<"ASHOK", " ", "LEYLAND">>),
       Text(<<"Sharjah">>), Number(0), Number(-100), Number(-2000)>>}

SampleMileageFiles ==
    {[columns |-> MileageHeader, rows |-> rs] :
        rs \in SeqUpTo(SampleMileageRows, MaxRows)}

SampleTimeLogRows ==
    {<<DateCell(1), HMS(2, 30, 0), HMS(1, 0, 0)>>,
     <<DateCell(2), HMS(2, 30, 0), NumDuration(50)>>,
     <<TextDate, HMS(2, 30, 0), HMS(1, 0, 0)>>}

SampleTimeLogFiles ==
    {[columns |-> <<Grouping, EngineHours, BoomOperationTime>>, rows |-> rs] :
        rs \in SeqUpTo(SampleTimeLogRows, MaxRows)}

\* New.py: st.file_uploader, with one of the sample reports
UploadTimeLogSample ==
    /\ pc = "start"
    /\ \E f \in SampleTimeLogFiles : uploaded_file' = f
    /\ app' = "New.py"
    /\ pc' = "uploaded"
    /\ UNCHANGED <<df_full, df_base, df, petrol_price, diesel_price,
                   global_eff, errors, fn_arg, fn_ret, dashboard>>

\* New.py lines 125-134 and 149-156: the user's date selection is read and
\* df becomes a copy of the rows of df_full it keeps.
SelectDates ==
    /\ app = "New.py" /\ pc = "loaded"
    /\ \E s \in Selections(date_options(df_full)) :
          /\ selected_dates_raw' = s
          /\ df' = filter_dates(df_full, s)
    /\ pc' = "displayed"
    /\ UNCHANGED <<app, uploaded_file, df_full, df_base, petrol_price,
                   diesel_price, global_eff, errors, fn_arg, fn_ret, sel_locs,
                   sel_makes, sel_maint, sel_vehicles, selection_filtered,
                   threshold, ghost_assets_data, filtered>>

\* streamlit_app.py: st.file_uploader, with one of the sample reports
UploadMileageSample ==
    /\ pc = "start"
    /\ \E f \in SampleMileageFiles : uploaded_file' = f
    /\ app' = "streamlit_app.py"
    /\ pc' = "uploaded"
    /\ UNCHANGED <<df_full, df_base, df, petrol_price, diesel_price,
                   global_eff, errors, fn_arg, fn_ret, dashboard>>

\* streamlit_app.py lines 173-195: the four selections, each offered the
\* values the rows kept so far have, and st.stop() when no row is kept.
SelectFilters ==
    /\ app = "streamlit_app.py" /\ pc = "costed"
    /\ LET loc_options == {df[i].Location : i \in 1..Len(df)}
       IN  \E locs \in Returned_by(loc_options) :
           LET df_step1 == SelectSeq(df, LAMBDA r : r.Location \in locs)
               make_options == {df_step1[i].Make : i \in 1..Len(df_step1)}
           IN  \E makes \in Returned_by(make_options) :
               LET df_step2 == SelectSeq(df_step1, LAMBDA r : r.Make \in makes)
                   maint_options ==
                       {df_step2[i].Maintenance_Band : i \in 1..Len(df_step2)}
               IN  \E maint \in Returned_by(maint_options) :
                   LET df_step3 ==
                           SelectSeq(df_step2,
                                     LAMBDA r : r.Maintenance_Band \in maint)
                       veh_options ==
                           {df_step3[i].Vehicle_ID : i \in 1..Len(df_step3)}
                   IN  \E vehicles \in Returned_by(veh_options) :
                       LET kept == SelectSeq(df_step3,
                                             LAMBDA r : r.Vehicle_ID \in vehicles)
                       IN  /\ sel_locs' = locs
                           /\ sel_makes' = makes
                           /\ sel_maint' = maint
                           /\ sel_vehicles' = vehicles
                           /\ selection_filtered' = kept
                           /\ pc' = IF kept = <<>> THEN "stopped" ELSE "selected"
    /\ UNCHANGED <<app, uploaded_file, df_full, df_base, df, petrol_price,
                   diesel_price, global_eff, errors, fn_arg, fn_ret,
                   selected_dates_raw, threshold, ghost_assets_data, filtered>>

\* streamlit_app.py lines 198-210: the threshold slider is read, the unused
\* vehicles are set apart, CPK is added to selection_filtered and the rows
\* above the threshold go to filtered.
ApplyThreshold ==
    /\ app = "streamlit_app.py" /\ pc = "selected"
    /\ LET with_cpk == [i \in 1..Len(selection_filtered) |->
                          WithCPK(selection_filtered[i])]
       IN  /\ \E t \in {0, 10, slider_max(selection_filtered)} :
                 /\ threshold' = t
                 /\ filtered' = SelectSeq(with_cpk, LAMBDA r : r.Total_Km > t * 10)
           /\ ghost_assets_data' =
                 SelectSeq(selection_filtered, LAMBDA r : r.Total_Km = 0)
           /\ selection_filtered' = with_cpk
    /\ pc' = "displayed"
    /\ UNCHANGED <<app, uploaded_file, df_full, df_base, df, petrol_price,
                   diesel_price, global_eff, errors, fn_arg, fn_ret,
                   selected_dates_raw, sel_locs, sel_makes, sel_maint,
                   sel_vehicles>>

NextDashboard ==
    \/ UploadTimeLogSample \/ LoadTimeLog \/ SelectDates
    \/ UploadMileageSample \/ LoadMileage \/ ComputeCost
    \/ SelectFilters \/ ApplyThreshold

SpecDashboard == Init /\ [][NextDashboard]_vars

\* ------------------------------------- time_to_hours on its own
HourVals == -1..MaxHour
MinuteVals == {0, 18, 30, 59}
SecondVals == {0, 18, 30, 59}

DurationInputs ==
    {NaNDuration}
    \cup {NumDuration(25 * k) : k \in -MaxDay..MaxDay}
    \cup {HMS(h, m, s) : h \in HourVals, m \in MinuteVals, s \in SecondVals}
    \cup {TextDuration(ps) : ps \in SeqUpTo({JunkPart, IntPart(2), IntPart(30)}, 4)}

InitTimeToHours ==
    /\ app = "New.py"
    /\ pc = "call"
    /\ uploaded_file = NoFile
    /\ df_full = NoTable
    /\ df_base = NoTable
    /\ df = NoTable
    /\ petrol_price = 52
    /\ diesel_price = 57
    /\ global_eff = 10
    /\ errors = <<>>
    /\ fn_arg \in DurationInputs
    /\ fn_ret = <<>>
    /\ NothingSelected

\* df['Engine_Raw'].apply(time_to_hours), one cell
ApplyTimeToHours ==
    /\ app = "New.py" /\ pc = "call"
    /\ fn_ret' = time_to_hours(fn_arg)
    /\ pc' = "return"
    /\ UNCHANGED <<app, uploaded_file, df_full, df_base, df, petrol_price,
                   diesel_price, global_eff, errors, fn_arg, dashboard>>

SpecTimeToHours == InitTimeToHours /\ [][ApplyTimeToHours]_vars

\* ------------------------- one mileage row through load and costing
PlateAlphabet == {"A", "1", "-", " ", "x", "\n"}
TotalKmVals == {-10, 0, 5, 125, 1250, 2000, 4000}

RowInputs ==
    {[cells |-> r, petrol |-> 52, diesel |-> 57, eff |-> 10] : r \in MileageRows}
    \cup
    {[cells |-> [UsualRow EXCEPT ![2] = Text(t)],
      petrol |-> 52, diesel |-> 57, eff |-> 10] :
        t \in SeqUpTo(PlateAlphabet, MaxPlateLen)}
    \cup
    {[cells |-> [UsualRow EXCEPT ![3] = mk, ![6] = Number(e), ![7] = Number(t)],
      petrol |-> p, diesel |-> d, eff |-> g] :
        mk \in MakeCells \cup {Text(<<"MAZDA">>), Text(<<"NISSAN", " ", "ALTIMA">>),
                               Text(<<"MITSUBISHI", " ", "CANTER">>)},
        e \in {-100, 1000000, 6000000, 20000000},
        t \in TotalKmVals,
        p \in PetrolPrices, d \in DieselPrices, g \in GlobalEffs}

InitMileageRow ==
    /\ app = "streamlit_app.py"
    /\ pc = "call"
    /\ uploaded_file = NoFile
    /\ df_full = NoTable
    /\ df_base = NoTable
    /\ df = NoTable
    /\ petrol_price = 52
    /\ diesel_price = 57
    /\ global_eff = 10
    /\ errors = <<>>
    /\ fn_arg \in RowInputs
    /\ fn_ret = <<>>
    /\ NothingSelected

\* Lines 79-109 and 148-165 on one row that has its Sr.
ApplyMileageRow ==
    /\ app = "streamlit_app.py" /\ pc = "call"
    /\ LET r == CleanMileageRow(0, fn_arg.cells)
       IN  fn_ret' = WithCost(r, calculate_smart_cost(r, fn_arg.petrol,
                                                     fn_arg.diesel, fn_arg.eff))
    /\ pc' = "return"
    /\ UNCHANGED <<app, uploaded_file, df_full, df_base, df, petrol_price,
                   diesel_price, global_eff, errors, fn_arg, dashboard>>

SpecMileageRow == InitMileageRow /\ [][ApplyMileageRow]_vars

\* ============================================================ claims
TimeLogLoaded == app = "New.py" /\ pc = "loaded"
MileageLoaded == app = "streamlit_app.py" /\ pc \in {"loaded", "costed"}
Returned == pc = "return"

\* C1: in load_data, end_km = 50000 is Mid-Life, end_km = 100000 is
\* End-of-Life, and every end_km in [0, 50000) is Fresh.
C1_BoundaryInUpperBand ==
    MileageLoaded =>
        \A i \in 1..Len(df_base) :
            LET r == df_base[i]
            IN  /\ (r.End_Km = 5000000 => r.Maintenance_Band = MidLife)
                /\ (r.End_Km = 10000000 => r.Maintenance_Band = EndOfLife)
                /\ (0 <= r.End_Km /\ r.End_Km < 5000000 => r.Maintenance_Band = Fresh)

\* C2: every row of the table load_and_clean_data returns has
\* idle_hours = max(0, engine_hours - work_hours), so never a negative one.
C2_IdleIsClampedDifference ==
    TimeLogLoaded =>
        \A i \in 1..Len(df_full) :
            LET r == df_full[i]
                d == r.Engine_Hours - r.Work_Hours
            IN  /\ r.Idle_Hours = (IF d > 0 THEN d ELSE 0)
                /\ r.Idle_Hours >= 0

\* A returned row whose work hours exceed its engine hours, with idle 0.
C2_Witness ==
    /\ TimeLogLoaded
    /\ \E i \in 1..Len(df_full) :
          /\ df_full[i].Work_Hours > df_full[i].Engine_Hours
          /\ df_full[i].Idle_Hours = 0

\* C3: every row of the cleaned time-log table has utilization_pct =
\* work_hours / engine_hours * 100 when engine_hours > 0 (also above 100) and
\* 0 otherwise; a row with engine_hours = 0 does not abort the load: every
\* report with the required columns loads, with all its dated rows.
C3_UtilizationGuarded ==
    /\ TimeLogLoaded =>
          /\ \A i \in 1..Len(df_full) :
                LET r == df_full[i]
                    u == r.Utilization
                IN  /\ u.den > 0
                    /\ IF r.Engine_Hours > 0
                       THEN u.num * r.Engine_Hours = r.Work_Hours * 100 * u.den
                       ELSE u.num = 0
          /\ Len(df_full) =
                Cardinality({k \in 1..Len(uploaded_file.rows) :
                               uploaded_file.rows[k][1].kind = "date"})
    /\ (app = "New.py" /\ pc = "stopped") =>
          uploaded_file.columns \notin TimeLogHeaders

\* A returned table with a row of engine_hours = 0, work_hours > 0 and
\* utilization 0, and a row whose utilization is above 100.
C3_Witness ==
    /\ TimeLogLoaded
    /\ \E i \in 1..Len(df_full) :
          /\ df_full[i].Engine_Hours = 0
          /\ df_full[i].Work_Hours > 0
          /\ df_full[i].Utilization.num = 0
    /\ \E i \in 1..Len(df_full) :
          df_full[i].Utilization.num > 100 * df_full[i].Utilization.den

\* C4: every record of the cleaned time-log table has engine_hours >= 0,
\* work_hours >= 0 and utilization_pct >= 0, whatever the raw durations.
C4_HoursNonNegative ==
    TimeLogLoaded =>
        \A i \in 1..Len(df_full) :
            /\ df_full[i].Engine_Hours >= 0
            /\ df_full[i].Work_Hours >= 0
            /\ df_full[i].Utilization.num >= 0

\* C5: time_to_hours gives a value for every cell: text of at least three
\* ':'-separated integer parts gives hours + minutes/60 + seconds/3600 to the
\* nearest hundredth ("2:30:00" gives 2.5), a number gives 24 times itself
\* (0.5 gives 12.0), and a missing cell, text with a non-integer part and text
\* of fewer than three parts give 0.0.
C5_TimeToHours ==
    Returned /\ app = "New.py" =>
        LET c == fn_arg
            isHMS == /\ c.kind = "text" /\ Len(c.parts) >= 3
                     /\ \A i \in 1..Len(c.parts) : c.parts[i].ok
            exact == 360000 * c.parts[1].val + 6000 * c.parts[2].val
                     + 100 * c.parts[3].val
        IN  /\ fn_ret \in Int
            /\ c.kind = "num" => fn_ret = 24 * c.num
            /\ isHMS => 2 * Abs(3600 * fn_ret - exact) <= 3600
            /\ (c.kind # "num" /\ ~isHMS) => fn_ret = 0
            /\ c = HMS(2, 30, 0) => fn_ret = 250
            /\ c = NumDuration(50) => fn_ret = 1200

\* "2:30:00" has been converted, to 2.5 hours.
C5_Witness == Returned /\ fn_arg = HMS(2, 30, 0) /\ fn_ret = 250

\* C6: load_data maps "CWL-DUBAI" and "CWL DUBAI" in any letter case to
\* "Dubai" and every value that is no site name or alias to the sentinel, so
\* the location of a kept row is a canonical city name or the sentinel.
C6_LocationCanonicalOrSentinel ==
    MileageLoaded =>
        \A i \in 1..Len(df_base) :
            LET raw == uploaded_file.rows[df_base[i].idx + 1][4]
            IN  /\ (raw.kind = "str"
                       /\ upper(raw.s) \in {<<"CWL-DUBAI">>, <<"CWL", " ", "DUBAI">>}
                    => df_base[i].Location = <<"Dubai">>)
                /\ df_base[i].Location \in {p[2] : p \in CityNames} \cup {Other}

\* C7: estimated_fuel_cost of a row is (total_km/100) * base_rate(make) *
\* health_multiplier(band) * global multiplier * unit_price rounded to an
\* integer, with base_rate 12.0 for a make outside the rate table, the
\* multiplier 1.05 for Mid-Life, 1.15 for End-of-Life and 1.0 otherwise, and
\* the petrol price exactly for NISSAN SUNNY, NISSAN ALTIMA and MAZDA; MAZDA,
\* 200 km, petrol 2.60, multiplier 1.0, Fresh gives 47.
C7_FuelCost ==
    Returned /\ app = "streamlit_app.py" =>
        LET r == fn_ret
            base == IF \E p \in fuel_rates : p[1] = r.Make
                    THEN (CHOOSE p \in fuel_rates : p[1] = r.Make)[2] ELSE 24
            health == IF r.Maintenance_Band = MidLife THEN 21
                      ELSE IF r.Maintenance_Band = EndOfLife THEN 23 ELSE 20
            price == IF r.Make \in {<<"NISSAN", " ", "SUNNY">>,
                                    <<"NISSAN", " ", "ALTIMA">>, <<"MAZDA">>}
                     THEN fn_arg.petrol ELSE fn_arg.diesel
            exact == r.Total_Km * base * health * fn_arg.eff * price
        IN  /\ 2 * Abs(r.Est_Fuel_Cost_AED * 8000000 - exact) <= 8000000
            /\ (/\ r.Make = <<"MAZDA">> /\ r.Total_Km = 2000
                /\ r.Maintenance_Band = Fresh
                /\ fn_arg.petrol = 52 /\ fn_arg.eff = 10)
               => r.Est_Fuel_Cost_AED = 47

\* The MAZDA row of 200 km has been costed at 47 under petrol 2.60.
C7_Witness ==
    /\ Returned /\ app = "streamlit_app.py"
    /\ fn_ret.Make = <<"MAZDA">> /\ fn_ret.Total_Km = 2000
    /\ fn_ret.Maintenance_Band = Fresh
    /\ fn_arg.petrol = 52 /\ fn_arg.eff = 10
    /\ fn_ret.Est_Fuel_Cost_AED = 47

C9_MissingColumnAborts ==
    /\ (app = "New.py" /\ pc \in {"loaded", "stopped"}) =>
          LET cols == uploaded_file.columns
              lacking == \E name \in {<<"Grouping">>, <<"Engine hours">>,
                                       <<"Boom Operation time">>} :
                            \A i \in 1..Len(cols) : Strip(cols[i]) # name
          IN  IF lacking
              THEN /\ pc = "stopped" /\ df_full = NoTable
                   /\ errors # <<>> /\ ~ENABLED Next
              ELSE pc = "loaded" /\ errors = <<>>
    /\ (app = "streamlit_app.py" /\ pc \in {"loaded", "costed", "stopped"}) =>
          IF Len(uploaded_file.columns) # 7
          THEN /\ pc = "stopped" /\ df_base = NoTable /\ df = NoTable
               /\ errors # <<>> /\ ~ENABLED Next
          ELSE pc # "stopped" /\ errors = <<>>

\* A time-log report with data rows and no Boom Operation time column has
\* been refused.
C9_Witness ==
    /\ app = "New.py" /\ pc = "stopped"
    /\ uploaded_file.rows # <<>>
    /\ errors # <<>>

\* C10: the row filter drops exactly the rows whose key is missing: no
\* time-log row with a missing date is in the output, and a mileage row is in
\* the output exactly when its plate field is not missing.
C10_DropsExactlyMissingKey ==
    /\ TimeLogLoaded =>
          \A i \in 1..Len(df_full) :
              ~isna(uploaded_file.rows[df_full[i].idx + 1][1])
    /\ MileageLoaded =>
          \A k \in 1..Len(uploaded_file.rows) :
              (\E i \in 1..Len(df_base) : df_base[i].idx = k - 1)
                  <=> uploaded_file.rows[k][2].kind # "nan"

\* C11: a time-log row whose date cannot be read is dropped; a row with a
\* missing or unreadable secondary numeric field (engine or work duration;
\* start_km, end_km or total_km) is kept, with that field 0; and such rows
\* never stop the load.
C11_RepairedByDefault ==
    /\ TimeLogLoaded =>
          \A k \in 1..Len(uploaded_file.rows) :
              LET raw == uploaded_file.rows[k]
                  out == {i \in 1..Len(df_full) : df_full[i].idx = k - 1}
                  bad(c) == \/ c.kind = "nan"
                            \/ c.kind = "text" /\ \E j \in 1..Len(c.parts) : ~c.parts[j].ok
              IN  /\ raw[1].kind = "text" => out = {}
                  /\ raw[1].kind = "date" =>
                        /\ out # {}
                        /\ \A i \in out :
                              /\ bad(raw[2]) => df_full[i].Engine_Hours = 0
                              /\ bad(raw[3]) => df_full[i].Work_Hours = 0
    /\ MileageLoaded =>
          \A k \in 1..Len(uploaded_file.rows) :
              LET raw == uploaded_file.rows[k]
                  out == {i \in 1..Len(df_base) : df_base[i].idx = k - 1}
                  bad(c) == c.kind \in {"nan", "text"}
              IN  raw[1].kind # "nan" =>
                        /\ out # {}
                        /\ \A i \in out :
                              /\ bad(raw[5]) =>
                                    /\ df_base[i].Start_Km.kind = "num"
                                    /\ df_base[i].Start_Km.num = 0
                              /\ bad(raw[6]) => df_base[i].End_Km = 0
                              /\ bad(raw[7]) => df_base[i].Total_Km = 0
    /\ (pc = "stopped" /\ app = "New.py") =>
          uploaded_file.columns \notin TimeLogHeaders
    /\ (pc = "stopped" /\ app = "streamlit_app.py") =>
          Len(uploaded_file.columns) # 7

\* C12: the cleaned time-log table is in ascending date order (every adjacent
\* pair has first date <= second date); the cleaned mileage table holds the
\* surviving rows in the order they were uploaded.
C12_OutputOrder ==
    /\ TimeLogLoaded =>
          \A i \in 1..(Len(df_full) - 1) : df_full[i].Date <= df_full[i + 1].Date
    /\ MileageLoaded =>
          \A i \in 1..(Len(df_base) - 1) : df_base[i].idx < df_base[i + 1].idx

\* Two dated rows uploaded latest first, both in the cleaned table.
C12_Witness ==
    /\ TimeLogLoaded
    /\ Len(uploaded_file.rows) = 2
    /\ uploaded_file.rows[1][1] = DateCell(2)
    /\ uploaded_file.rows[2][1] = DateCell(1)
    /\ Len(df_full) = 2
    /\ df_full[1].idx = 1

\* C15: every row of the cleaned mileage table has one of the three
\* maintenance bands, whatever End_Km the coercion left in it (0 from an
\* unreadable cell and negative uploaded numbers included).
C15_BandIsOneOfThree ==
    MileageLoaded =>
        \A i \in 1..Len(df_base) :
            df_base[i].Maintenance_Band \in {Fresh, MidLife, EndOfLife}

MileageDisplayed == app = "streamlit_app.py" /\ pc = "displayed"
TimeLogDisplayed == app = "New.py" /\ pc = "displayed"

\* C13: every row of the filtered mileage selection has CPK equal to its
\* estimated fuel cost divided by its total km when total km > 0, and CPK 0
\* otherwise, so a total km of 0 is never divided by.
C13_CPKGuarded ==
    MileageDisplayed =>
        \A i \in 1..Len(selection_filtered) :
            LET r == selection_filtered[i]
            IN  /\ r.Total_Km > 0 =>
                      /\ r.CPK.den > 0
                      /\ r.CPK.num * r.Total_Km
                            = r.Est_Fuel_Cost_AED * 10 * r.CPK.den
                /\ r.Total_Km <= 0 => r.CPK = ZeroFrac

\* An unused vehicle and a used one with a cost are both in the selection.
C13_Witness ==
    /\ MileageDisplayed
    /\ \E i \in 1..Len(selection_filtered) : selection_filtered[i].Total_Km = 0
    /\ \E i \in 1..Len(selection_filtered) :
          /\ selection_filtered[i].Total_Km > 0
          /\ selection_filtered[i].CPK.num > 0

\* C16: once loaded, the cleaned table is not changed by any later step: the
\* fuel costing, the cascading filters, the CPK column and the threshold
\* (df_base), and the date filter (df_full), all work on copies.
C16_CleanedNeverMutated ==
    [][pc \notin {"start", "uploaded"} =>
          /\ df_base' = df_base
          /\ df_full' = df_full]_vars

\* The mileage script has run to its end on a table with rows, and the
\* copies carry columns the cleaned table lacks.
C16_Witness ==
    /\ MileageDisplayed
    /\ Len(df_base) = MaxRows
    /\ df_base = load_data(uploaded_file).df
    /\ \A i \in 1..Len(df) :
          DOMAIN df[i] = DOMAIN df_base[i] \cup {"Est_Fuel_Cost_AED"}
    /\ \A i \in 1..Len(selection_filtered) :
          DOMAIN selection_filtered[i]
            = DOMAIN df_base[1] \cup {"Est_Fuel_Cost_AED", "CPK"}

\* C17: the displayed rows are rows of the cleaned table, each with the
\* derived values it has when nothing is filtered out; and the time-log
\* dashboard shows every cleaned row when the date selection is empty or
\* holds 'Select All'.
C17_PureFilter ==
    /\ MileageDisplayed =>
          LET unfiltered ==
                  [i \in 1..Len(df_base) |->
                      WithCPK(WithCost(df_base[i],
                                       calculate_smart_cost(df_base[i], petrol_price,
                                                            diesel_price, global_eff)))]
              shown(rows) ==
                  \A k \in 1..Len(rows) :
                      \E i \in 1..Len(df_base) : rows[k] = unfiltered[i]
          IN  shown(selection_filtered) /\ shown(filtered)
    /\ TimeLogDisplayed =>
          /\ \A k \in 1..Len(df) : \E i \in 1..Len(df_full) : df[k] = df_full[i]
          /\ (selected_dates_raw.all \/ selected_dates_raw.picked = {}) =>
                df = df_full

\* Nothing at all is chosen in the date filter of a table with rows.
C17_Witness ==
    /\ TimeLogDisplayed
    /\ ~selected_dates_raw.all
    /\ selected_dates_raw.picked = {}
    /\ Len(df_full) = MaxRows
    /\ df = df_full
====
